---- MODULE Spec2Model ----
(***************************************************************************)
(* FinovateX pub/sub verification harness.                                 *)
(*                                                                         *)
(* TestMessage (the envelope), NATSTestHelper (the broker client adapter,  *)
(* publisher and durable consumer) and the raw pull-subscription calls of  *)
(* the recovery tests, over a JetStream broker: one retained subject, one  *)
(* cursor per durable name, per-message acknowledgment and an ack-wait     *)
(* timer after which an unacknowledged delivery is delivered again.        *)
(***************************************************************************)
EXTENDS Integers, Sequences, FiniteSets, TLC

\* ------------------------------------------------------------------ bounds
NTasks == 2        \* concurrently issued sessions (asyncio tasks)
NDurables == 2     \* durable consumer names in use
MaxMsgs == 2       \* messages retained on the subject
MaxCount == 2      \* largest count handed to subscribe_messages
MaxRawFetch == 2   \* fetches one raw pull subscription issues
MaxConns == 1      \* connect calls in one run
MaxId == 1         \* caller-chosen message ids
MaxSec == 1        \* seconds part of a timestamp
MaxMicro == 1      \* microseconds part of a timestamp
MaxClock == 2      \* largest reading of the wall clock, in seconds
MaxIterations == 2 \* iterations of the latency benchmark (test_count)
MaxCalls == 3      \* get and set calls on one Config object
MaxEnvSet == 2     \* environment variables set when a Config is built
MaxEnvGets == 1    \* get calls on a Config built from a chosen environment

Tasks == 1..NTasks
Durables == 1..NDurables

\* ---------------------------------------------------------------- envelope
\* A falsy msg_id (None or the empty string) is EmptyId; uuid4() draws from Uuids.
EmptyId == 0
Ids == 1..MaxId
Uuids == {MaxId + 1, MaxId + 2}
Types == {"test", "ordering_test"}
Payloads == {"", "p"}
Datetimes == [sec : 0..MaxSec, micro : 0..MaxMicro]
\* timestamp=None
NoneTimestamp == [sec |-> -1, micro |-> 0]
\* the envelope used where a call produced none
NoMsg == [id |-> EmptyId, type |-> "", payload |-> "", timestamp |-> NoneTimestamp]

\* TestMessage.__init__: `msg_id or str(uuid.uuid4())`, `timestamp or datetime.now()`
TestMessageInit(msg_id, msg_type, payload, timestamp, uuid, now) ==
    [id        |-> IF msg_id = EmptyId THEN uuid ELSE msg_id,
     type      |-> msg_type,
     payload   |-> payload,
     timestamp |-> IF timestamp = NoneTimestamp THEN now ELSE timestamp]

\* An isoformat that writes whole seconds only.
IsoFormatSeconds(ts) == <<ts.sec>>

\* datetime.isoformat(): the fractional part is written only when microsecond # 0.
\* The text is modelled as the sequence of its numeric parts.
IsoFormat(ts) == IF ts.micro = 0 THEN <<ts.sec>> ELSE <<ts.sec, ts.micro>>

\* datetime.fromisoformat accepts the text with or without the fractional part.
IsIsoText(s) == Len(s) \in {1, 2}

FromIsoFormat(s) ==
    IF Len(s) = 1 THEN [sec |-> s[1], micro |-> 0]
                  ELSE [sec |-> s[1], micro |-> s[2]]

\* TestMessage.to_dict
ToDict(m) ==
    [id |-> m.id, type |-> m.type, payload |-> m.payload,
     timestamp |-> IsoFormat(m.timestamp)]

\* TestMessage.to_json (and .encode()): the bytes on the wire
ToJson(m) == [kind |-> "json", obj |-> ToDict(m)]

\* A from_json that does not hand the id to the constructor.
FromJsonDropsId(bytes, uuid, now) ==
    IF bytes.kind # "json"
      THEN [err |-> "JSONDecodeError", msg |-> NoMsg]
    ELSE IF \E f \in {"id", "type", "payload", "timestamp"} : f \notin DOMAIN bytes.obj
      THEN [err |-> "KeyError", msg |-> NoMsg]
    ELSE IF ~IsIsoText(bytes.obj.timestamp)
      THEN [err |-> "ValueError", msg |-> NoMsg]
    ELSE [err |-> "none",
          msg |-> TestMessageInit(EmptyId, bytes.obj.type, bytes.obj.payload,
                                  FromIsoFormat(bytes.obj.timestamp), uuid, now)]

\* TestMessage.from_json: json.loads, the four subscripts in argument order,
\* datetime.fromisoformat, then the constructor. err names the exception raised.
FromJson(bytes, uuid, now) ==
    IF bytes.kind # "json"
      THEN [err |-> "JSONDecodeError", msg |-> NoMsg]
    ELSE IF \E f \in {"id", "type", "payload", "timestamp"} : f \notin DOMAIN bytes.obj
      THEN [err |-> "KeyError", msg |-> NoMsg]
    ELSE IF ~IsIsoText(bytes.obj.timestamp)
      THEN [err |-> "ValueError", msg |-> NoMsg]
    ELSE [err |-> "none",
          msg |-> TestMessageInit(bytes.obj.id, bytes.obj.type, bytes.obj.payload,
                                  FromIsoFormat(bytes.obj.timestamp), uuid, now)]

\* ------------------------------------------------------------------ broker
\* What the harness publishes in the scenarios: a caller-chosen or generated id.
PubType == "test"
PubPayload == ""
PubNow == [sec |-> 1, micro |-> 1]
PubUuids == {MaxId + 1}

\* Bytes other producers on the shared broker put on the subject.
MissingId == [kind |-> "json", obj |-> [type |-> "test", payload |-> "", timestamp |-> <<1>>]]
ForeignBytes == {MissingId}

\* Bytes that are no envelope: not JSON, a field absent, a timestamp that is no
\* ISO-8601 text.
Garbage == [kind |-> "garbage", obj |-> [type |-> "x"]]
BadTimestamp ==
    [kind |-> "json", obj |-> [id |-> 1, type |-> "test", payload |-> "", timestamp |-> <<>>]]
MalformedBytes == {Garbage, MissingId, BadTimestamp}

\* The five streams of the platform. The sessions of this model work on one subject of
\* SYSTEM_EVENTS; NoStreamSubject is a subject no stream retains.
StreamNames == {"MARKET_DATA", "TRADING_SIGNALS", "EXECUTION_EVENTS", "RISK_EVENTS",
                "SYSTEM_EVENTS"}
TheStream == "SYSTEM_EVENTS"
TheSubject == "finovatex.system.test"
NoStreamSubject == "unbound.test"
Subjects == {TheSubject, NoStreamSubject}
Streams == [n \in StreamNames |-> IF n = TheStream THEN {TheSubject} ELSE {}]
UnknownStreamName == "NO_SUCH_STREAM"
NoInfo == [asked |-> "", name |-> "", subjects |-> {}, messages |-> 0, bytes |-> 0,
           err |-> "none"]

\* What js.publish(subject, ...) raises: the connection is closed, or no stream
\* retains the subject and the broker sends no PubAck; "none" when it is stored.
JsPublishError(conn, closedConns, reg, subject) ==
    IF conn \in closedConns THEN "ConnectionClosedError"
    ELSE IF \A n \in DOMAIN reg : subject \notin reg[n] THEN "NoStreamResponseError"
    ELSE "none"

\* The reply of js.stream_info(name): the stream's configuration and state (every
\* message counted as one unit of size), or the error raised when the connection is
\* closed or the broker knows no such stream.
JsStreamInfo(conn, closedConns, reg, msgs, name) ==
    IF conn \in closedConns
      THEN [NoInfo EXCEPT !.asked = name, !.err = "ConnectionClosedError"]
    ELSE IF name \notin DOMAIN reg
      THEN [NoInfo EXCEPT !.asked = name, !.err = "NotFoundError"]
    ELSE [asked |-> name, name |-> name, subjects |-> reg[name],
          messages |-> IF name = TheStream THEN Len(msgs) ELSE 0,
          bytes |-> IF name = TheStream THEN Len(msgs) ELSE 0,
          err |-> "none"]

\* A get_stream_info that answers with the name of one fixed stream.
InfoFieldsFixedName(reply) == [reply EXCEPT !.name = TheStream]

\* The dictionary get_stream_info builds from the reply: "name", "subjects",
\* "messages", "bytes" as the reply has them.
InfoFields(reply) ==
    [asked |-> reply.asked, name |-> reply.name, subjects |-> reply.subjects,
     messages |-> reply.messages, bytes |-> reply.bytes, err |-> "none"]

\* `except Exception as e: ...; raise` of get_stream_info.
InfoRaises(e) == e

\* A get_stream_info that creates the stream it was asked about.
RegistryAfterInfoCreates(reg, name) ==
    [n \in DOMAIN reg \cup {name} |-> IF n \in DOMAIN reg THEN reg[n] ELSE {}]

\* The broker's streams after get_stream_info: js.stream_info only reads.
RegistryAfterInfo(reg, name) == reg

\* A durable consumer before its first pull_subscribe.
NoConsumer == [exists |-> FALSE, next |-> 1, pending |-> {}, redeliver |-> {}, acked |-> {}]

SetMin(S) == CHOOSE x \in S : \A y \in S : x <= y

\* A broker that never delivers a message a second time.
BrokerNextNoRedelivery(c, len) == IF c.next <= len THEN c.next ELSE 0

\* The stream sequence the next pull-fetch of this consumer gets, 0 when none is
\* available: a delivery whose ack-wait elapsed first, else the next new message.
BrokerNext(c, len) ==
    IF c.redeliver # {} THEN SetMin(c.redeliver)
    ELSE IF c.next <= len THEN c.next
    ELSE 0

\* The consumer after delivering q: q is pending until acknowledged.
BrokerDeliver(c, q) ==
    [c EXCEPT !.pending = @ \cup {q},
              !.redeliver = @ \ {q},
              !.next = IF q = c.next THEN q + 1 ELSE @]

\* The consumer after an acknowledgment of q reaches the broker.
BrokerAck(c, q) ==
    [c EXCEPT !.pending = @ \ {q}, !.redeliver = @ \ {q}, !.acked = @ \cup {q}]

\* js.pull_subscribe(subject, durable, stream=...): binds to the durable consumer,
\* creating it (deliver policy: all) only when the name is new.
BrokerBind(c) == IF c.exists THEN c ELSE [NoConsumer EXCEPT !.exists = TRUE]

\* ------------------------------------------------------------------- state
VARIABLES
    nconn,      \* connections opened so far
    closed,     \* the connections that were closed
    nc,         \* NATSTestHelper.nc: 0 is None
    js,         \* NATSTestHelper.js: the connection of the JetStream context, 0 is None
    err,        \* the exception the last connect/publish call raised, "none" if none
    stream,     \* the bytes retained on the subject, in stream order
    consumer,   \* the broker's durable consumers, by durable name
    task,       \* the sessions: subscribe_messages calls and raw pull subscriptions
    rt,         \* one envelope on its way through the constructor, to_json and from_json
    registry,   \* the broker's streams: the subjects each stream name retains
    info,       \* what the last get_stream_info call returned or raised
    lat,        \* the latency benchmark: its loop position, clock reads and latencies
    cfg,        \* a Config object, the environment it was built in, the last call on it
    lg          \* the logging module's loggers and what the last get_logger call returned

harness == <<nconn, closed, nc, js, err, stream, consumer, task>>
utils == <<lat, cfg, lg>>
side == <<rt, registry, info, utils>>
vars == <<nconn, closed, nc, js, err, stream, consumer, task, rt, registry, info, lat, cfg, lg>>

IdleTask ==
    [pc |-> "idle", kind |-> "none", durable |-> 0, conn |-> 0, count |-> 0,
     iter |-> 0, messages |-> <<>>, got |-> <<>>, held |-> {}, acked |-> {},
     cause |-> "none", startLen |-> 0, prev |-> {}]

\* No envelope under way.
NoArgs == [msg_id |-> EmptyId, msg_type |-> "", payload |-> "", timestamp |-> NoneTimestamp]
NoBytes == [kind |-> "none", obj |-> [type |-> ""]]
NoEnvelope ==
    [pc |-> "idle", args |-> NoArgs, msg |-> NoMsg, bytes |-> NoBytes, back |-> NoMsg,
     err |-> "none"]

\* NATSTestHelper() against a broker whose streams are empty.
InitHarness ==
    /\ nconn = 0
    /\ closed = {}
    /\ nc = 0
    /\ js = 0
    /\ err = "none"
    /\ stream = <<>>
    /\ consumer = [d \in Durables |-> NoConsumer]
    /\ task = [t \in Tasks |-> IdleTask]

\* The streams exist before the harness starts; no get_stream_info call was made.
IdleRegistry ==
    /\ registry = Streams
    /\ info = NoInfo

\* The latency benchmark before its first iteration.
NoLatency == [pc |-> "idle", i |-> 0, start |-> 0, reads |-> <<>>, latencies |-> <<>>]

\* Configuration values: a leaf is an immutable Python value written as its type and
\* text; a dict is an object, and a value that is a dict is a reference to it. The
\* heap is the sequence of the dict objects created so far, each given by its items;
\* the object id of a dict is its index in the heap.
Leaf(type, text) == [kind |-> "leaf", type |-> type, text |-> text]
Ref(oid) == [kind |-> "ref", oid |-> oid]
NoneLeaf == Leaf("none", "None")
EmptyDict == [k \in {} |-> NoneLeaf]

\* os.environ: a variable is unset or holds a text.
Unset == "<unset>"
EnvVars == {"DEBUG", "PORT", "DB_HOST", "DB_PORT", "DB_NAME", "DB_USER", "DB_PASSWORD",
            "REDIS_HOST", "REDIS_PORT", "REDIS_DB", "LOG_LEVEL"}
NoEnv == [v \in EnvVars |-> Unset]

\* A call on the Config object: the operation, its key (the segments of the dot path),
\* its value or default, the exception it raised and what it returned.
NoCall == [op |-> "none", key |-> <<>>, arg |-> NoneLeaf, err |-> "none", result |-> NoneLeaf]

\* No Config object, no logger.
NoConfig ==
    [pc |-> "idle", env |-> NoEnv, heap |-> <<>>, root |-> 0, before |-> <<>>,
     dict |-> 0, calls |-> 0, last |-> NoCall, prev |-> NoCall]
\* The logger names and the level arguments get_logger is called with; NoLevel is
\* the argument left out (None).
LoggerNames == {"test_logger", "integration_test"}
NoLevel == "<none>"
LevelArgs == {NoLevel, "", "DEBUG", "debug", "WARNING", "bogus"}

\* A logger as logging.getLogger first creates it: level NOTSET, no handler.
NoLogger == [level |-> "NOTSET", handlers |-> 0]
NoLoggerCall == [name |-> "", level |-> NoLevel, err |-> "none", returned |-> "", got |-> "NOTSET"]
NoLogging == [loggers |-> [n \in LoggerNames |-> NoLogger], last |-> NoLoggerCall]

IdleUtils ==
    /\ lat = NoLatency
    /\ cfg = NoConfig
    /\ lg = NoLogging

Init ==
    /\ InitHarness
    /\ rt = NoEnvelope
    /\ IdleRegistry
    /\ IdleUtils

IsOpen(c) == c # 0 /\ c \notin closed

\* A helper whose operations have no guard.
NeverGuards(ctx) == FALSE

\* `if not self.js`: the guard of publish_message, subscribe_messages and
\* get_stream_info, which raise RuntimeError("JetStream未初始化") when it holds.
NotInitialised(ctx) == ctx = 0

\* Sessions and durable names are interchangeable: a run takes the sessions, and
\* the durable names it has not used yet, in order.
InOrder(t, d) ==
    /\ \A u \in Tasks : u < t => task[u].pc # "idle"
    /\ \A e \in Durables : e < d => \E u \in Tasks : task[u].durable = e

\* -------------------------------------------------------------- connection
\* NATSTestHelper.connect: nats.connect succeeded
Connect ==
    /\ nconn < MaxConns
    /\ nconn' = nconn + 1
    /\ nc' = nconn + 1
    /\ js' = nconn + 1
    /\ err' = "none"
    /\ UNCHANGED <<closed, stream, consumer, task, side>>

\* A connect that keeps the connection although it raised.
ConnectFailHalfOpen ==
    /\ nconn < MaxConns
    /\ nconn' = nconn + 1
    /\ nc' = nconn + 1
    /\ err' = "ConnectionError"
    /\ UNCHANGED <<closed, js, stream, consumer, task, side>>

\* NATSTestHelper.connect: nats.connect raised; logged and re-raised
ConnectFail ==
    /\ err' = "ConnectionError"
    /\ UNCHANGED <<nconn, closed, nc, js, stream, consumer, task, side>>

\* A disconnect that closes whatever nc holds.
ClosesUnguarded(conn, closedConns) == closedConns \cup {conn}

\* `if self.nc: await self.nc.close()`: nothing is closed while nc is None.
Closes(conn, closedConns) == IF conn # 0 THEN closedConns \cup {conn} ELSE closedConns

\* NATSTestHelper.disconnect
Disconnect ==
    /\ closed' = Closes(nc, closed)
    /\ UNCHANGED <<nconn, nc, js, err, stream, consumer, task, side>>

\* ----------------------------------------------------------------- publish
\* A handler that raises an error of its own in place of the adapter's.
PublishRaisesOwn(e) == "RuntimeError"

\* `except Exception as e: ...; raise`: the adapter's exception is raised again.
PublishRaises(e) == e

\* NATSTestHelper.publish_message: the guard, js.publish awaited until the broker's
\* PubAck, any exception logged and re-raised.
Publish(msg_id, uuid, subject) ==
    /\ IF NotInitialised(js)
         THEN /\ err' = "RuntimeError"
              /\ UNCHANGED stream
       ELSE IF JsPublishError(js, closed, registry, subject) # "none"
         THEN /\ err' = PublishRaises(JsPublishError(js, closed, registry, subject))
              /\ UNCHANGED stream
       ELSE /\ Len(stream) < MaxMsgs
            /\ stream' = Append(stream, ToJson(TestMessageInit(msg_id, PubType, PubPayload,
                                                             NoneTimestamp, uuid, PubNow)))
            /\ err' = "none"
    /\ UNCHANGED <<nconn, closed, nc, js, consumer, task, side>>

\* Another producer publishes to the subject.
ForeignPublish(bytes) ==
    /\ Len(stream) < MaxMsgs
    /\ stream' = Append(stream, bytes)
    /\ UNCHANGED <<nconn, closed, nc, js, err, consumer, task, side>>

\* The broker's ack-wait timer of a pending delivery elapses.
AckWaitExpire(d, q) ==
    /\ q \in consumer[d].pending
    /\ consumer' = [consumer EXCEPT ![d].pending = @ \ {q}, ![d].redeliver = @ \cup {q}]
    /\ UNCHANGED <<nconn, closed, nc, js, err, stream, task, side>>

\* ------------------------------------------------------ subscribe_messages
\* A handler that goes on with the next iteration instead of breaking.
OnLoopExceptionContinues(tk, cause) ==
    [tk EXCEPT !.cause = cause, !.iter = @ - 1,
               !.pc = IF tk.iter = 1 THEN "returned" ELSE "fetch"]

\* A handler that re-raises instead of breaking.
OnLoopExceptionRaises(tk, cause) == [tk EXCEPT !.pc = "raised", !.cause = cause]

\* The handler of the loop's `except Exception`: warn, break, and so return what
\* was collected.
OnLoopException(tk, cause) == [tk EXCEPT !.pc = "returned", !.cause = cause]

\* An ack that is never sent.
MsgAckNotSent(c, q) == c

\* msgs[0].ack(): the acknowledgment of q reaches the broker.
MsgAck(c, q) == BrokerAck(c, q)

\* A loop that does not collect the message it decoded.
AppendMessageDropped(tk, m) == tk

\* A loop that puts each new message in front of the collected ones.
AppendMessageInFront(tk, m) == [tk EXCEPT !.messages = <<m>> \o @]

\* The task after `messages.append(test_msg)`.
AppendMessage(tk, m) == [tk EXCEPT !.messages = Append(@, m)]

\* A loop that runs one iteration short.
IterationsOneShort(count) == count - 1

\* `for _ in range(count)`: the iterations of the loop.
Iterations(count) == count

\* A loop that takes its next iteration without the ack having settled the handle.
AfterAckKeepsHandle(tk, q) ==
    [tk EXCEPT !.iter = @ - 1, !.pc = IF tk.iter = 1 THEN "returned" ELSE "fetch"]

\* The task once msgs[0].ack() has returned: the handle is settled (acked records
\* the message with the number of fetches made so far) and the loop takes its
\* next iteration, or ends and the call returns messages.
AfterAck(tk, q) ==
    [tk EXCEPT !.held = @ \ {q}, !.acked = @ \cup {<<q, Len(tk.got)>>}, !.iter = @ - 1,
               !.pc = IF tk.iter = 1 THEN "returned" ELSE "fetch"]

\* The sessions a new session under durable name d resumes: those that used the
\* name before it, when every one of them has been unsubscribed.
Resumed(d) ==
    LET before == {u \in Tasks : task[u].durable = d}
    IN IF \A u \in before : task[u].pc = "closed" THEN before ELSE {}

\* NATSTestHelper.subscribe_messages up to the first fetch: the guard, then
\* js.pull_subscribe; an exception of either is raised to the caller.
SubscribeMessages(t, d, count) ==
    /\ task[t].pc = "idle"
    /\ InOrder(t, d)
    /\ IF NotInitialised(js)
         THEN /\ task' = [task EXCEPT ![t] = [@ EXCEPT !.pc = "raised", !.kind = "helper",
                                                      !.cause = "guard"]]
              /\ UNCHANGED consumer
       ELSE IF ~IsOpen(js)
         THEN /\ task' = [task EXCEPT ![t] = [@ EXCEPT !.pc = "raised", !.kind = "helper",
                                                      !.cause = "closed"]]
              /\ UNCHANGED consumer
       ELSE /\ consumer' = [consumer EXCEPT ![d] = BrokerBind(@)]
            /\ task' = [task EXCEPT ![t] =
                 [@ EXCEPT !.pc = IF Iterations(count) = 0 THEN "returned" ELSE "fetch",
                           !.kind = "helper", !.durable = d, !.conn = js,
                           !.count = count, !.iter = Iterations(count),
                           !.startLen = Len(stream), !.prev = Resumed(d)]]
    /\ UNCHANGED <<nconn, closed, nc, js, err, stream, side>>

\* psub.fetch(1, timeout=5.0) returns a message: decode it, append it, go on to the
\* ack; a from_json exception is caught by the loop's handler.
FetchMsg(t, uuid) ==
    /\ task[t].pc = "fetch"
    /\ IsOpen(task[t].conn)
    /\ LET d == task[t].durable
           q == BrokerNext(consumer[d], Len(stream))
           r == FromJson(stream[q], uuid, PubNow)
           tk == [task[t] EXCEPT !.got = Append(@, q), !.held = @ \cup {q}]
       IN /\ q # 0
          /\ consumer' = [consumer EXCEPT ![d] = BrokerDeliver(@, q)]
          /\ task' = [task EXCEPT ![t] =
                IF r.err # "none" THEN OnLoopException(tk, "decode")
                ELSE [AppendMessage(tk, r.msg) EXCEPT !.pc = "ack"]]
    /\ UNCHANGED <<nconn, closed, nc, js, err, stream, side>>

\* psub.fetch raises TimeoutError: nothing was available within the timeout.
FetchTimeout(t) ==
    /\ task[t].pc = "fetch"
    /\ IsOpen(task[t].conn)
    /\ BrokerNext(consumer[task[t].durable], Len(stream)) = 0
    /\ task' = [task EXCEPT ![t] = OnLoopException(@, "timeout")]
    /\ UNCHANGED <<nconn, closed, nc, js, err, stream, consumer, side>>

\* psub.fetch raises because the connection was closed.
FetchFail(t) ==
    /\ task[t].pc = "fetch"
    /\ ~IsOpen(task[t].conn)
    /\ task' = [task EXCEPT ![t] = OnLoopException(@, "closed")]
    /\ UNCHANGED <<nconn, closed, nc, js, err, stream, consumer, side>>

\* msgs[0].ack() succeeds; the loop goes on, or ends and the call returns.
AckMsg(t) ==
    /\ task[t].pc = "ack"
    /\ IsOpen(task[t].conn)
    /\ LET d == task[t].durable
           q == task[t].got[Len(task[t].got)]
       IN /\ consumer' = [consumer EXCEPT ![d] = MsgAck(@, q)]
          /\ task' = [task EXCEPT ![t] = AfterAck(@, q)]
    /\ UNCHANGED <<nconn, closed, nc, js, err, stream, side>>

\* msgs[0].ack() raises because the connection was closed.
AckFail(t) ==
    /\ task[t].pc = "ack"
    /\ ~IsOpen(task[t].conn)
    /\ task' = [task EXCEPT ![t] = OnLoopException(@, "closed")]
    /\ UNCHANGED <<nconn, closed, nc, js, err, stream, consumer, side>>

\* ------------------------------------------------- raw pull subscriptions
\* The recovery tests drive the subscription themselves: js.pull_subscribe,
\* psub.fetch(1), TestMessage.from_json, msgs[0].ack(), psub.unsubscribe(); an
\* exception of any of them ends the test.
RawSubscribe(t, d) ==
    /\ task[t].pc = "idle"
    /\ InOrder(t, d)
    /\ js # 0
    /\ IF ~IsOpen(js)
         THEN /\ task' = [task EXCEPT ![t] = [@ EXCEPT !.pc = "raised", !.kind = "raw",
                                                      !.cause = "closed"]]
              /\ UNCHANGED consumer
         ELSE /\ consumer' = [consumer EXCEPT ![d] = BrokerBind(@)]
              /\ task' = [task EXCEPT ![t] =
                   [@ EXCEPT !.pc = "open", !.kind = "raw", !.durable = d, !.conn = js,
                             !.startLen = Len(stream), !.prev = Resumed(d)]]
    /\ UNCHANGED <<nconn, closed, nc, js, err, stream, side>>

\* msgs = await psub.fetch(1, timeout=5.0); TestMessage.from_json(msgs[0].data.decode());
\* the message is not acknowledged here.
RawFetch(t, uuid) ==
    /\ task[t].pc = "open"
    /\ Len(task[t].got) < MaxRawFetch
    /\ IF ~IsOpen(task[t].conn)
         THEN /\ task' = [task EXCEPT ![t] = [@ EXCEPT !.pc = "raised", !.cause = "closed"]]
              /\ UNCHANGED consumer
         ELSE LET d == task[t].durable
                  q == BrokerNext(consumer[d], Len(stream))
                  r == FromJson(stream[q], uuid, PubNow)
                  tk == [task[t] EXCEPT !.got = Append(@, q), !.held = @ \cup {q}]
              IN IF q = 0
                   THEN /\ task' = [task EXCEPT ![t] =
                                       [@ EXCEPT !.pc = "raised", !.cause = "timeout"]]
                        /\ UNCHANGED consumer
                   ELSE /\ consumer' = [consumer EXCEPT ![d] = BrokerDeliver(@, q)]
                        /\ task' = [task EXCEPT ![t] =
                              IF r.err # "none"
                                THEN [tk EXCEPT !.pc = "raised", !.cause = "decode"]
                                ELSE AppendMessage(tk, r.msg)]
    /\ UNCHANGED <<nconn, closed, nc, js, err, stream, side>>

\* await msgs[0].ack() on a message this subscription fetched earlier
RawAck(t, q) ==
    /\ task[t].pc = "open"
    /\ q \in task[t].held
    /\ IF ~IsOpen(task[t].conn)
         THEN /\ task' = [task EXCEPT ![t] = [@ EXCEPT !.pc = "raised", !.cause = "closed"]]
              /\ UNCHANGED consumer
         ELSE /\ consumer' = [consumer EXCEPT ![task[t].durable] = MsgAck(@, q)]
              /\ task' = [task EXCEPT ![t] =
                            [@ EXCEPT !.held = @ \ {q},
                                      !.acked = @ \cup {<<q, Len(task[t].got)>>}]]
    /\ UNCHANGED <<nconn, closed, nc, js, err, stream, side>>

\* An unsubscribe that deletes the durable consumer.
UnsubscribedDeletes(c) == NoConsumer

\* The consumer after psub.unsubscribe(): only the local subscription ends.
Unsubscribed(c) == c

\* await psub.unsubscribe()
RawUnsubscribe(t) ==
    /\ task[t].pc = "open"
    /\ IF ~IsOpen(task[t].conn)
         THEN /\ task' = [task EXCEPT ![t] = [@ EXCEPT !.pc = "raised", !.cause = "closed"]]
              /\ UNCHANGED consumer
         ELSE /\ consumer' = [consumer EXCEPT ![task[t].durable] = Unsubscribed(@)]
              /\ task' = [task EXCEPT ![t] = [@ EXCEPT !.pc = "closed"]]
    /\ UNCHANGED <<nconn, closed, nc, js, err, stream, side>>

Next ==
    \/ Connect
    \/ nconn < MaxConns /\ ConnectFail
    \/ Disconnect
    \/ \E i \in {EmptyId} \cup Ids, u \in PubUuids : Publish(i, u, TheSubject)
    \/ \E b \in ForeignBytes : ForeignPublish(b)
    \/ \E d \in Durables, q \in 1..MaxMsgs : AckWaitExpire(d, q)
    \/ \E t \in Tasks, d \in Durables, c \in 1..MaxCount : SubscribeMessages(t, d, c)
    \/ \E t \in Tasks, u \in Uuids : FetchMsg(t, u)
    \/ \E t \in Tasks : FetchTimeout(t)
    \/ \E t \in Tasks : FetchFail(t)
    \/ \E t \in Tasks : AckMsg(t)
    \/ \E t \in Tasks : AckFail(t)
    \/ \E t \in Tasks, d \in Durables : RawSubscribe(t, d)
    \/ \E t \in Tasks, u \in Uuids : RawFetch(t, u)
    \/ \E t \in Tasks, q \in 1..MaxMsgs : RawAck(t, q)
    \/ \E t \in Tasks : RawUnsubscribe(t)

Spec == Init /\ [][Next]_vars

\* --------------------------------------------------- adapter and registry
\* NATSTestHelper.get_stream_info: the guard, js.stream_info, the four fields of the
\* reply; any exception is logged and raised again.
GetStreamInfo(name) ==
    /\ LET reply == JsStreamInfo(js, closed, registry, stream, name)
       IN info' = IF NotInitialised(js)
                    THEN [NoInfo EXCEPT !.asked = name, !.err = "RuntimeError"]
                  ELSE IF reply.err # "none"
                    THEN [NoInfo EXCEPT !.asked = name, !.err = InfoRaises(reply.err)]
                  ELSE InfoFields(reply)
    /\ registry' = RegistryAfterInfo(registry, name)
    /\ UNCHANGED <<harness, rt, utils>>

\* One session at a time, every adapter operation: a connect that fails whenever it is
\* made, a publish on any subject, stream info for any name.
AdapterTasks == {1}
AdapterDurables == {1}

NextAdapter ==
    \/ Connect
    \/ ConnectFail
    \/ Disconnect
    \/ \E i \in {EmptyId} \cup Ids, u \in PubUuids, s \in Subjects : Publish(i, u, s)
    \/ \E b \in ForeignBytes : ForeignPublish(b)
    \/ \E d \in AdapterDurables, q \in 1..MaxMsgs : AckWaitExpire(d, q)
    \/ \E t \in AdapterTasks, d \in AdapterDurables, c \in 1..MaxCount :
          SubscribeMessages(t, d, c)
    \/ \E t \in AdapterTasks, u \in Uuids : FetchMsg(t, u)
    \/ \E t \in AdapterTasks : FetchTimeout(t)
    \/ \E t \in AdapterTasks : FetchFail(t)
    \/ \E t \in AdapterTasks : AckMsg(t)
    \/ \E t \in AdapterTasks : AckFail(t)
    \/ \E t \in AdapterTasks, d \in AdapterDurables : RawSubscribe(t, d)
    \/ \E t \in AdapterTasks, u \in Uuids : RawFetch(t, u)
    \/ \E t \in AdapterTasks, q \in 1..MaxMsgs : RawAck(t, q)
    \/ \E t \in AdapterTasks : RawUnsubscribe(t)
    \/ \E n \in StreamNames \cup {UnknownStreamName} : GetStreamInfo(n)

SpecAdapter == Init /\ [][NextAdapter]_vars

\* ------------------------------------------------------ envelope round trip
\* The arguments TestMessage(...) is called with.
EnvelopeArgs ==
    [msg_id : {EmptyId} \cup Ids, msg_type : Types, payload : Payloads,
     timestamp : {NoneTimestamp} \cup Datetimes]

\* One envelope to be built from chosen arguments, or bytes received that are no
\* envelope.
InitEnvelope ==
    /\ InitHarness
    /\ IdleRegistry
    /\ IdleUtils
    /\ \/ \E a \in EnvelopeArgs : rt = [NoEnvelope EXCEPT !.pc = "args", !.args = a]
       \/ \E b \in MalformedBytes : rt = [NoEnvelope EXCEPT !.pc = "wire", !.bytes = b]

\* TestMessage(msg_id, msg_type, payload, timestamp)
Create(uuid, now) ==
    /\ rt.pc = "args"
    /\ rt' = [rt EXCEPT !.pc = "made",
                        !.msg = TestMessageInit(rt.args.msg_id, rt.args.msg_type,
                                                rt.args.payload, rt.args.timestamp,
                                                uuid, now)]
    /\ UNCHANGED <<harness, registry, info, utils>>

\* message.to_json().encode()
Serialize ==
    /\ rt.pc = "made"
    /\ rt' = [rt EXCEPT !.pc = "wire", !.bytes = ToJson(rt.msg)]
    /\ UNCHANGED <<harness, registry, info, utils>>

\* TestMessage.from_json(data.decode())
Deserialize(uuid, now) ==
    /\ rt.pc = "wire"
    /\ LET r == FromJson(rt.bytes, uuid, now)
       IN rt' = IF r.err # "none"
                  THEN [rt EXCEPT !.pc = "failed", !.err = r.err]
                  ELSE [rt EXCEPT !.pc = "back", !.back = r.msg]
    /\ UNCHANGED <<harness, registry, info, utils>>

NextEnvelope ==
    \/ \E u \in Uuids, now \in Datetimes : Create(u, now)
    \/ Serialize
    \/ \E u \in Uuids, now \in Datetimes : Deserialize(u, now)

SpecEnvelope == InitEnvelope /\ [][NextEnvelope]_vars

\* ------------------------------------------------------- latency benchmark
\* What time.time() can return: the wall clock, which the system can set back
\* between two reads.
Clock == 0..MaxClock

\* `(end_time - start_time) * 1000`: seconds to milliseconds
MsPerSecond == 1000
LatencyMs(start, end) == (end - start) * MsPerSecond

InitLatency ==
    /\ InitHarness
    /\ rt = NoEnvelope
    /\ IdleRegistry
    /\ cfg = NoConfig
    /\ lg = NoLogging
    /\ lat = [NoLatency EXCEPT !.pc = "loop"]

\* test_message_latency, one iteration up to the publish: start_time = time.time()
LatencyBegin(now) ==
    /\ lat.pc = "loop"
    /\ lat' = [lat EXCEPT !.pc = "sent", !.start = now]
    /\ UNCHANGED <<harness, rt, registry, info, cfg, lg>>

\* test_message_latency, the iteration after subscribe_messages returned:
\* end_time = time.time(); latency = (end_time - start_time) * 1000;
\* latencies.append(latency)
LatencyEnd(now) ==
    /\ lat.pc = "sent"
    /\ lat' = [lat EXCEPT !.pc = IF lat.i + 1 = MaxIterations THEN "done" ELSE "loop",
                          !.i = @ + 1,
                          !.reads = Append(@, <<lat.start, now>>),
                          !.latencies = Append(@, LatencyMs(lat.start, now))]
    /\ UNCHANGED <<harness, rt, registry, info, cfg, lg>>

NextLatency ==
    \/ \E now \in Clock : LatencyBegin(now)
    \/ \E now \in Clock : LatencyEnd(now)

SpecLatency == InitLatency /\ [][NextLatency]_vars

\* ------------------------------------------------------------------ Config
\* dict[key] = value
Put(items, k, v) == [x \in DOMAIN items \cup {k} |-> IF x = k THEN v ELSE items[x]]

\* Config._load_defaults: the dict display creates the five sections and then the
\* dict that holds them, which becomes self._config.
LoadDefaults(heap) ==
    LET n == Len(heap)
    IN [heap |-> heap \o
          << [name |-> Leaf("str", "finovatex"), version |-> Leaf("str", "0.1.0"),
              debug |-> Leaf("bool", "False"), port |-> Leaf("int", "8080")],
             [host |-> Leaf("str", "localhost"), port |-> Leaf("int", "5432"),
              name |-> Leaf("str", "finovatex"), user |-> Leaf("str", "postgres"),
              password |-> Leaf("str", "")],
             [host |-> Leaf("str", "localhost"), port |-> Leaf("int", "6379"),
              db |-> Leaf("int", "0")],
             [level |-> Leaf("str", "INFO"),
              format |-> Leaf("str", "%(asctime)s - %(name)s - %(levelname)s - %(message)s")],
             [prometheus_port |-> Leaf("int", "9090"),
              metrics_enabled |-> Leaf("bool", "True")],
             [app |-> Ref(n + 1), database |-> Ref(n + 2), redis |-> Ref(n + 3),
              logging |-> Ref(n + 4), monitoring |-> Ref(n + 5)] >>,
        root |-> n + 6]

RECURSIVE Lookup(_, _, _)
\* `for k in keys: value = value[k]`: the value reached, or the exception of the
\* first subscript that fails (KeyError on a dict without k, TypeError on a value
\* that is no dict).
Lookup(heap, value, keys) ==
    IF keys = <<>> THEN [err |-> "none", value |-> value]
    ELSE IF value.kind # "ref" THEN [err |-> "TypeError", value |-> value]
    ELSE IF Head(keys) \notin DOMAIN heap[value.oid] THEN [err |-> "KeyError", value |-> value]
    ELSE Lookup(heap, heap[value.oid][Head(keys)], Tail(keys))

\* A get that answers the default for a missing key only: a TypeError escapes.
GetCatchesKeyErrorOnly(heap, root, keys, default) ==
    LET r == Lookup(heap, Ref(root), keys)
    IN IF r.err = "KeyError" THEN [err |-> "none", result |-> default]
       ELSE IF r.err = "TypeError" THEN [err |-> "TypeError", result |-> NoneLeaf]
       ELSE [err |-> "none", result |-> r.value]

\* Config.get: `except (KeyError, TypeError): return default`; a value that is a
\* dict is returned as the object itself.
Get(heap, root, keys, default) ==
    LET r == Lookup(heap, Ref(root), keys)
    IN IF r.err \in {"KeyError", "TypeError"} THEN [err |-> "none", result |-> default]
       ELSE [err |-> "none", result |-> r.value]

RECURSIVE Set(_, _, _, _)
\* Config.set from `config` on: walk keys[:-1], creating a dict where a key is
\* missing, then assign keys[-1]. `k not in config`, `config[k]` and
\* `config[k] = ...` raise TypeError (or, for a string, fail at the subscript that
\* follows) when config is no dict. The dicts are changed in place, so what was done
\* before an exception stays done; the value is stored as it is, a dict by reference.
Set(heap, config, keys, value) ==
    IF config.kind # "ref" THEN [err |-> "TypeError", heap |-> heap]
    ELSE IF Len(keys) = 1
      THEN [err |-> "none", heap |-> [heap EXCEPT ![config.oid] = Put(@, keys[1], value)]]
    ELSE IF Head(keys) \notin DOMAIN heap[config.oid]
      THEN Set(Append([heap EXCEPT ![config.oid] = Put(@, Head(keys), Ref(Len(heap) + 1))],
                      EmptyDict),
               Ref(Len(heap) + 1), Tail(keys), value)
    ELSE Set(heap, heap[config.oid][Head(keys)], Tail(keys), value)

\* Config.to_dict: self._config.copy() creates one new dict with the items of
\* self._config; the values are not copied.
ConfigToDictCopy(heap, root) == [heap |-> Append(heap, heap[root]), result |-> Ref(Len(heap) + 1)]

RECURSIVE Assign(_, _, _, _)
\* The caller's `d[k] = value` or `d[s][k] = value` on a dict d it holds: plain
\* subscripts, nothing is created on the way.
Assign(heap, d, keys, value) ==
    IF d.kind # "ref" THEN [err |-> "TypeError", heap |-> heap]
    ELSE IF Len(keys) = 1
      THEN [err |-> "none", heap |-> [heap EXCEPT ![d.oid] = Put(@, keys[1], value)]]
    ELSE IF Head(keys) \notin DOMAIN heap[d.oid] THEN [err |-> "KeyError", heap |-> heap]
    ELSE Assign(heap, heap[d.oid][Head(keys)], Tail(keys), value)

\* The texts an environment variable is given here.
EnvTexts == {"", "true", "TRUE", "9000", " 9000", "abc"}

\* The environments with at most MaxEnvSet variables set.
Envs ==
    UNION {{[v \in EnvVars |-> IF v \in S THEN a[v] ELSE Unset] : a \in [S -> EnvTexts]} :
           S \in {T \in SUBSET EnvVars : Cardinality(T) <= MaxEnvSet}}

\* Config._load_from_env, statement by statement: the variable, the key it is
\* assigned to, the conversion applied.
EnvRules ==
    << [var |-> "DEBUG",       path |-> <<"app", "debug">>,         conv |-> "bool"],
       [var |-> "PORT",        path |-> <<"app", "port">>,          conv |-> "int"],
       [var |-> "DB_HOST",     path |-> <<"database", "host">>,     conv |-> "str"],
       [var |-> "DB_PORT",     path |-> <<"database", "port">>,     conv |-> "int"],
       [var |-> "DB_NAME",     path |-> <<"database", "name">>,     conv |-> "str"],
       [var |-> "DB_USER",     path |-> <<"database", "user">>,     conv |-> "str"],
       [var |-> "DB_PASSWORD", path |-> <<"database", "password">>, conv |-> "str"],
       [var |-> "REDIS_HOST",  path |-> <<"redis", "host">>,        conv |-> "str"],
       [var |-> "REDIS_PORT",  path |-> <<"redis", "port">>,        conv |-> "int"],
       [var |-> "REDIS_DB",    path |-> <<"redis", "db">>,          conv |-> "int"],
       [var |-> "LOG_LEVEL",   path |-> <<"logging", "level">>,     conv |-> "str"] >>

\* An `if os.getenv(X):` that is true for every variable that is set.
EnvIsSet(text) == text # Unset

\* `if os.getenv(X):` is false for an unset variable and for the empty text.
EnvTruthy(text) == text \notin {Unset, ""}

\* str.lower() on the texts used here
Lower(text) == IF text = "TRUE" THEN "true" ELSE text

\* int(text): surrounding whitespace is ignored; ValueError for a text that is no
\* integer literal.
IntOf(text) ==
    IF text \in {"9000", " 9000"} THEN [err |-> "none", value |-> Leaf("int", "9000")]
    ELSE [err |-> "ValueError", value |-> NoneLeaf]

\* The value a statement of _load_from_env assigns for the text of its variable.
Converted(conv, text) ==
    CASE conv = "bool" ->
           [err |-> "none",
            value |-> Leaf("bool", IF Lower(text) = "true" THEN "True" ELSE "False")]
      [] conv = "int" -> IntOf(text)
      [] conv = "str" -> [err |-> "none", value |-> Leaf("str", text)]

RECURSIVE LoadFromEnv(_, _, _, _)
\* Config._load_from_env from its i-th statement on; an int() that raises ends it.
LoadFromEnv(heap, root, env, i) ==
    IF i > Len(EnvRules) THEN [err |-> "none", heap |-> heap]
    ELSE LET rule == EnvRules[i]
             text == env[rule.var]
         IN IF ~EnvTruthy(text) THEN LoadFromEnv(heap, root, env, i + 1)
            ELSE IF Converted(rule.conv, text).err # "none"
              THEN [err |-> Converted(rule.conv, text).err, heap |-> heap]
            ELSE LoadFromEnv(Set(heap, Ref(root), rule.path,
                                 Converted(rule.conv, text).value).heap,
                             root, env, i + 1)

\* Config(): self._config = {}, _load_defaults, then _load_from_env; no configuration
\* file is read (_load_from_file does nothing).
ConfigNew ==
    /\ cfg.pc = "env"
    /\ LET d == LoadDefaults(<<EmptyDict>>)
           r == LoadFromEnv(d.heap, d.root, cfg.env, 1)
       IN cfg' = IF r.err # "none"
                   THEN [cfg EXCEPT !.pc = "failed",
                                    !.last = [NoCall EXCEPT !.op = "new", !.err = r.err]]
                   ELSE [cfg EXCEPT !.pc = "ready", !.heap = r.heap, !.root = d.root,
                                    !.before = r.heap,
                                    !.last = [NoCall EXCEPT !.op = "new"]]
    /\ UNCHANGED <<harness, rt, registry, info, lat, lg>>

\* config.get(key, default), key given as the segments key.split(".") yields
ConfigGet(key, default) ==
    /\ cfg.pc = "ready"
    /\ cfg.calls < MaxCalls
    /\ LET r == Get(cfg.heap, cfg.root, key, default)
       IN cfg' = [cfg EXCEPT !.calls = @ + 1, !.before = cfg.heap, !.prev = cfg.last,
                             !.last = [op |-> "get", key |-> key, arg |-> default,
                                       err |-> r.err, result |-> r.result]]
    /\ UNCHANGED <<harness, rt, registry, info, lat, lg>>

\* The argument `{}`: a dict the caller creates for the call.
NewDict == [kind |-> "new"]

\* config.set(key, value); `before` is the heap when the call begins.
ConfigSet(key, value) ==
    /\ cfg.pc = "ready"
    /\ cfg.calls < MaxCalls
    /\ LET heap == IF value = NewDict THEN Append(cfg.heap, EmptyDict) ELSE cfg.heap
           v == IF value = NewDict THEN Ref(Len(heap)) ELSE value
           r == Set(heap, Ref(cfg.root), key, v)
       IN cfg' = [cfg EXCEPT !.calls = @ + 1, !.before = heap, !.heap = r.heap,
                             !.prev = cfg.last,
                             !.last = [op |-> "set", key |-> key, arg |-> v,
                                       err |-> r.err, result |-> NoneLeaf]]
    /\ UNCHANGED <<harness, rt, registry, info, lat, lg>>

\* config.to_dict(); the caller keeps the returned dict.
ConfigToDict ==
    /\ cfg.pc = "ready"
    /\ cfg.calls < MaxCalls
    /\ LET r == ConfigToDictCopy(cfg.heap, cfg.root)
       IN cfg' = [cfg EXCEPT !.calls = @ + 1, !.before = cfg.heap, !.heap = r.heap,
                             !.dict = r.result.oid, !.prev = cfg.last,
                             !.last = [NoCall EXCEPT !.op = "to_dict", !.result = r.result]]
    /\ UNCHANGED <<harness, rt, registry, info, lat, lg>>

\* The caller modifies the dict to_dict returned: d[k] = value, d[s][k] = value.
DictAssign(key, value) ==
    /\ cfg.pc = "ready"
    /\ cfg.calls < MaxCalls
    /\ cfg.dict # 0
    /\ LET r == Assign(cfg.heap, Ref(cfg.dict), key, value)
       IN cfg' = [cfg EXCEPT !.calls = @ + 1, !.before = cfg.heap, !.heap = r.heap,
                             !.prev = cfg.last,
                             !.last = [op |-> "assign", key |-> key, arg |-> value,
                                       err |-> r.err, result |-> NoneLeaf]]
    /\ UNCHANGED <<harness, rt, registry, info, lat, lg>>

\* The keys, values and defaults the calls are made with: a default, a section, a
\* path through a default that is no dict, new paths of two and three segments and
\* the parent of one.
ConfigKeys ==
    {<<"app", "name">>, <<"app">>, <<"app", "name", "first">>, <<"test", "key">>,
     <<"test">>, <<"new", "nested", "key">>}
ConfigValues == {Leaf("str", "test_value"), Leaf("int", "1"), NewDict}
GetDefaults == {NoneLeaf, Leaf("str", "default_value")}

\* What the caller assigns in the returned dict: a top-level key that exists, one
\* that is new, a key inside a section.
DictKeys == {<<"app">>, <<"extra">>, <<"app", "name">>}

InitConfig ==
    /\ InitHarness
    /\ rt = NoEnvelope
    /\ IdleRegistry
    /\ lat = NoLatency
    /\ lg = NoLogging
    /\ cfg = [NoConfig EXCEPT !.pc = "env"]

\* The last disjunct of set is a call with the dict an immediately preceding get
\* returned: config.set(k, config.get(s)).
NextConfig ==
    \/ ConfigNew
    \/ \E key \in ConfigKeys, default \in GetDefaults : ConfigGet(key, default)
    \/ \E key \in ConfigKeys, value \in ConfigValues : ConfigSet(key, value)
    \/ /\ cfg.last.op = "get"
       /\ cfg.last.result.kind = "ref"
       /\ \E key \in ConfigKeys : ConfigSet(key, cfg.last.result)
    \/ ConfigToDict
    \/ \E key \in DictKeys : DictAssign(key, Leaf("str", "test_value"))

SpecConfig == InitConfig /\ [][NextConfig]_vars

\* A Config built in a chosen environment, then read.
EnvKeys == {EnvRules[i].path : i \in 1..Len(EnvRules)}

InitConfigEnv ==
    /\ InitHarness
    /\ rt = NoEnvelope
    /\ IdleRegistry
    /\ lat = NoLatency
    /\ lg = NoLogging
    /\ \E e \in Envs : cfg = [NoConfig EXCEPT !.pc = "env", !.env = e]

NextConfigEnv ==
    \/ ConfigNew
    \/ cfg.calls < MaxEnvGets /\ \E key \in EnvKeys : ConfigGet(key, NoneLeaf)

SpecConfigEnv == InitConfigEnv /\ [][NextConfigEnv]_vars

\* ------------------------------------------------------------------ logger

\* The level names the logging module defines as attributes.
LevelNames == {"NOTSET", "DEBUG", "INFO", "WARNING", "ERROR", "CRITICAL"}

\* str.upper() on the level arguments used here
Upper(text) == IF text = "debug" THEN "DEBUG" ELSE text

\* A get_logger that takes every logger for a new one.
NeverConfigured(logger) == FALSE

\* `if logger.handlers:` the logger was configured by an earlier call.
HasHandlers(logger) == logger.handlers > 0

\* get_logger(name, level). logging.getLogger keeps one logger per name for the
\* life of the process. A logger that already has a handler is returned as it is;
\* otherwise its level is set (getattr(logging, level.upper()) raises
\* AttributeError for a name the module does not define) and one handler is added.
GetLogger(name, level) ==
    /\ LET logger == lg.loggers[name]
           call == [NoLoggerCall EXCEPT !.name = name, !.level = level, !.returned = name,
                                        !.got = logger.level]
       IN IF HasHandlers(logger)
            THEN lg' = [lg EXCEPT !.last = call]
          ELSE IF level \notin {NoLevel, ""} /\ Upper(level) \notin LevelNames
            THEN lg' = [lg EXCEPT !.last = [call EXCEPT !.err = "AttributeError",
                                                        !.returned = ""]]
          ELSE LET set == IF level \notin {NoLevel, ""} THEN Upper(level) ELSE "INFO"
               IN lg' = [lg EXCEPT !.loggers[name] = [level |-> set,
                                                      handlers |-> logger.handlers + 1],
                                   !.last = [call EXCEPT !.got = set]]
    /\ UNCHANGED <<harness, rt, registry, info, lat, cfg>>

InitLogger ==
    /\ InitHarness
    /\ rt = NoEnvelope
    /\ IdleRegistry
    /\ lat = NoLatency
    /\ cfg = NoConfig
    /\ lg = NoLogging

NextLogger == \E name \in LoggerNames, level \in LevelArgs : GetLogger(name, level)

SpecLogger == InitLogger /\ [][NextLogger]_vars

\* ------------------------------------------------------- eventual delivery
\* One durable name. The session Keeper belongs to a consumer that calls
\* subscribe_messages again whenever a call has returned or raised; the session
\* Earlier drives a raw pull subscription under the same name and may leave what it
\* fetched unacknowledged and unsubscribe.
Keeper == 1
Earlier == 2
KeptDurable == 1

\* The caller of subscribe_messages makes its next call.
CallAgain(t) ==
    /\ task[t].pc \in {"returned", "raised"}
    /\ task' = [task EXCEPT ![t] = IdleTask]
    /\ UNCHANGED <<nconn, closed, nc, js, err, stream, consumer, side>>

\* The steps of the consumer that keeps fetching and acknowledging.
Consume ==
    \/ \E c \in 1..MaxCount : SubscribeMessages(Keeper, KeptDurable, c)
    \/ \E u \in Uuids : FetchMsg(Keeper, u)
    \/ FetchTimeout(Keeper)
    \/ AckMsg(Keeper)
    \/ CallAgain(Keeper)

NextDelivery ==
    \/ Connect
    \/ \E i \in {EmptyId} \cup Ids, u \in PubUuids : Publish(i, u, TheSubject)
    \/ \E q \in 1..MaxMsgs : AckWaitExpire(KeptDurable, q)
    \/ Consume
    \/ RawSubscribe(Earlier, KeptDurable)
    \/ \E u \in Uuids : RawFetch(Earlier, u)
    \/ \E q \in 1..MaxMsgs : RawAck(Earlier, q)
    \/ RawUnsubscribe(Earlier)

\* The fixture connects before a test runs; the broker's ack-wait timer of every
\* pending delivery runs out; the consumer's task is scheduled again and again.
FairDelivery ==
    /\ WF_vars(Connect)
    /\ \A q \in 1..MaxMsgs : WF_vars(AckWaitExpire(KeptDurable, q))
    /\ WF_vars(Consume)

SpecDelivery == Init /\ [][NextDelivery]_vars /\ FairDelivery

\* ----------------------------------------------------- concurrent publishes
\* test_message_throughput: publish_message calls issued as asyncio tasks and
\* gathered. A call is a session of kind "publish": the guard and the request
\* (pc "publishing"), the broker storing the bytes and sending its PubAck (pc
\* "stored", got holds the stream position), the await returning (pc "returned").

\* A publish that returns without waiting for the broker's confirmation.
ConfirmedOrSent(tk) == tk.pc \in {"publishing", "stored"}

\* `await self.js.publish(...)` returns once the broker's PubAck has arrived.
Confirmed(tk) == tk.pc = "stored"

\* publish_message up to the request: the guard, message.to_json().encode(), the
\* request handed to the connection.
PublishCall(t, msg_id, uuid) ==
    /\ task[t].pc = "idle"
    /\ task' = [task EXCEPT ![t] =
          IF NotInitialised(js)
            THEN [@ EXCEPT !.pc = "raised", !.kind = "publish", !.cause = "guard"]
            ELSE [@ EXCEPT !.pc = "publishing", !.kind = "publish", !.conn = js,
                           !.startLen = Len(stream),
                           !.messages = <<TestMessageInit(msg_id, PubType, PubPayload,
                                                          NoneTimestamp, uuid, PubNow)>>]]
    /\ UNCHANGED <<nconn, closed, nc, js, err, stream, consumer, side>>

\* The broker receives the request, appends the bytes to the stream and sends the
\* PubAck with the stream sequence.
BrokerStores(t) ==
    /\ task[t].pc = "publishing"
    /\ IsOpen(task[t].conn)
    /\ stream' = Append(stream, ToJson(task[t].messages[1]))
    /\ task' = [task EXCEPT ![t] = [@ EXCEPT !.pc = "stored", !.got = <<Len(stream) + 1>>]]
    /\ UNCHANGED <<nconn, closed, nc, js, err, consumer, side>>

\* The PubAck arrives: js.publish returns, publish_message logs and returns.
PublishReturns(t) ==
    /\ task[t].kind = "publish"
    /\ Confirmed(task[t])
    /\ IsOpen(task[t].conn)
    /\ task' = [task EXCEPT ![t] = [@ EXCEPT !.pc = "returned"]]
    /\ UNCHANGED <<nconn, closed, nc, js, err, stream, consumer, side>>

\* The connection was closed before the PubAck arrived: js.publish raises and
\* publish_message raises it again.
PublishFails(t) ==
    /\ task[t].pc \in {"publishing", "stored"}
    /\ ~IsOpen(task[t].conn)
    /\ task' = [task EXCEPT ![t] = [@ EXCEPT !.pc = "raised", !.cause = "closed"]]
    /\ UNCHANGED <<nconn, closed, nc, js, err, stream, consumer, side>>

\* No publish task issued yet.
BeforeBatch == \A t \in Tasks : task[t].pc = "idle"

NextPublish ==
    \/ Connect
    \/ Disconnect
    \/ BeforeBatch /\ \E i \in {EmptyId} \cup Ids, u \in PubUuids : Publish(i, u, TheSubject)
    \/ \E t \in Tasks, i \in {EmptyId} \cup Ids, u \in PubUuids : PublishCall(t, i, u)
    \/ \E t \in Tasks : BrokerStores(t)
    \/ \E t \in Tasks : PublishReturns(t)
    \/ \E t \in Tasks : PublishFails(t)

SpecPublish == Init /\ [][NextPublish]_vars

\* ------------------------------------------------------------------ claims
Range(f) == {f[i] : i \in DOMAIN f}

\* The id the publisher gave the i-th message of the subject.
PublishedId(i) == stream[i].obj.id

\* A subscribe_messages call that has returned, on a durable name no other session
\* uses, begun when the subject already held `count` messages of the harness, over a
\* connection that is still open.
Undisturbed(t) ==
    /\ task[t].kind = "helper"
    /\ task[t].pc = "returned"
    /\ IsOpen(task[t].conn)
    /\ \A u \in Tasks \ {t} : task[u].durable # task[t].durable
    /\ task[t].startLen >= task[t].count
    /\ \A i \in 1..task[t].count : stream[i] \notin ForeignBytes

\* C1: under one durable name, a subscribe_messages call for `count` messages made
\* after `count` messages were published one after the other returns exactly those
\* envelopes, ids in publish order, whatever sessions on other durable names do.
C1_FifoPerDurable ==
    \A t \in Tasks :
        Undisturbed(t) =>
            /\ Len(task[t].messages) = task[t].count
            /\ \A i \in 1..task[t].count : task[t].messages[i].id = PublishedId(i)

\* C1 happens: two messages with different ids came back in order while a session
\* on another durable name was at work.
C1_Witness ==
    \E t \in Tasks, u \in Tasks :
        /\ Undisturbed(t)
        /\ task[t].count = 2
        /\ PublishedId(1) # PublishedId(2)
        /\ task[u].durable \notin {0, task[t].durable}
        /\ task[u].got # <<>>

\* C2: two subscribe_messages calls under distinct durable names, each asking for the
\* M messages published before, each get all M (2 * M deliveries, the same messages
\* to both, not M shared out between them), however their fetches and acks interleave.
C2_FanOut ==
    \A t \in Tasks, u \in Tasks :
        (t # u /\ Undisturbed(t) /\ Undisturbed(u) /\ task[t].count = task[u].count) =>
            /\ Len(task[t].messages) = task[t].count
            /\ Range(task[t].got) = 1..task[t].count
            /\ task[u].got = task[t].got
            /\ Len(task[t].messages) + Len(task[u].messages) = 2 * task[t].count

\* C2 happens: two consumers with distinct durable names each received both messages.
C2_Witness ==
    \E t \in Tasks, u \in Tasks :
        /\ t # u /\ Undisturbed(t) /\ Undisturbed(u)
        /\ task[t].count = 2 /\ task[u].count = 2
        /\ Len(task[t].messages) = 2 /\ Len(task[u].messages) = 2

\* C6 as claimed: when subscribe_messages returns, every envelope of the returned
\* sequence has been acknowledged to the broker.
C6_ReturnedAreAcked ==
    \A t \in Tasks :
        (task[t].kind = "helper" /\ task[t].pc = "returned") =>
            \A i \in 1..Len(task[t].messages) :
                task[t].got[i] \in consumer[task[t].durable].acked

\* C8: a pull-fetch that times out inside subscribe_messages is not raised: the call
\* returns the envelopes received so far, fewer than asked for.
C8_TimeoutIsPartialResult ==
    \A t \in Tasks :
        (task[t].kind = "helper" /\ task[t].cause = "timeout") =>
            /\ task[t].pc = "returned"
            /\ Len(task[t].messages) < task[t].count
            /\ Len(task[t].messages) = task[t].count - task[t].iter

\* C8 happens: a call for two messages timed out after it had received one.
C8_Witness ==
    \E t \in Tasks :
        /\ task[t].kind = "helper" /\ task[t].cause = "timeout"
        /\ task[t].count = 2 /\ Len(task[t].messages) = 1

\* C9 as claimed: a from_json failure inside subscribe_messages reaches the caller as
\* an exception.
C9_DecodeErrorIsRaised ==
    \A t \in Tasks :
        (task[t].kind = "helper" /\ task[t].cause = "decode") => task[t].pc = "raised"

\* C10 as claimed: a subscribe_messages call for one message, under a durable name of
\* its own, made right after a publish, returns exactly the envelope just published.
C10_FetchReturnsJustPublished ==
    \A t \in Tasks :
        (/\ task[t].kind = "helper" /\ task[t].pc = "returned"
         /\ IsOpen(task[t].conn)
         /\ \A u \in Tasks \ {t} : task[u].durable # task[t].durable
         /\ task[t].count = 1
         /\ task[t].startLen >= 1
         /\ \A i \in 1..task[t].startLen : stream[i] \notin ForeignBytes) =>
            /\ Len(task[t].messages) = 1
            /\ task[t].messages[1].id = PublishedId(task[t].startLen)

AckedSeqs(tk) == {p[1] : p \in tk.acked}

\* The messages acknowledged so far by the sessions under durable name d.
AckedUnder(d) == UNION {AckedSeqs(task[u]) : u \in {v \in Tasks : task[v].durable = d}}

\* Session u takes a message in this step.
Fetches(u) == Len(task'[u].got) = Len(task[u].got) + 1

C3_Step(t, u) ==
    LET d == task[t].durable
        R == consumer[d].redeliver
        q == SetMin(R)
        first == {i \in 1..Len(task[t].messages) : task[t].got[i] = q}
    IN (/\ R # {}
        /\ q \in task[t].held
        /\ first # {}
        /\ task[u].durable = d
        /\ Fetches(u)) =>
           /\ task'[u].got[Len(task'[u].got)] = q
           /\ Len(task'[u].messages) = Len(task[u].messages) + 1
           /\ \A i \in first :
                 task'[u].messages[Len(task'[u].messages)].id = task[t].messages[i].id

\* C3: when a session fetched a message under a durable name and has not acknowledged
\* it, and its ack-wait has elapsed (it is the oldest delivery awaiting redelivery),
\* the next fetch under that durable name returns a message with the same envelope id.
C3_RedeliveryOnNonAck ==
    [][\A d \in Durables : \A t \in Tasks, u \in Tasks :
          task[t].durable = d => C3_Step(t, u)]_vars

\* C3 happens: a raw subscription fetched the same message twice without an ack, and
\* both deliveries decoded to the same id.
C3_Witness ==
    \E t \in Tasks :
        /\ task[t].kind = "raw"
        /\ task[t].acked = {}
        /\ Len(task[t].messages) = 2
        /\ task[t].got[1] = task[t].got[2]
        /\ task[t].messages[1].id = task[t].messages[2].id

\* The sessions t resumed settled every message they took, and no other session
\* has used the durable name since.
ResumesCleanly(t) ==
    /\ task[t].prev # {}
    /\ \A u \in task[t].prev : task[u].held = {}
    /\ \A u \in Tasks \ {t} : task[u].durable = task[t].durable => u \in task[t].prev

\* C4: a session opened under a durable name whose earlier sessions were unsubscribed
\* resumes the same cursor: its first fetch returns the oldest message the earlier
\* sessions did not acknowledge (a message published while they were open and not
\* fetched by them), and no later fetch of it returns a message it has acknowledged.
C4_ConsumerIdentityPersists ==
    \A t \in Tasks :
        ResumesCleanly(t) =>
            /\ task[t].got # <<>> =>
                 task[t].got[1] =
                     Cardinality(UNION {AckedSeqs(task[u]) : u \in task[t].prev}) + 1
            /\ \A p \in task[t].acked :
                 \A i \in (p[2] + 1)..Len(task[t].got) : task[t].got[i] # p[1]

\* C4 happens: the first session was opened before the publish and unsubscribed
\* without fetching; the second got that message, acknowledged it, and its further
\* fetch returned the next message instead.
C4_Witness ==
    \E t \in Tasks, u \in Tasks :
        /\ ResumesCleanly(t)
        /\ u \in task[t].prev
        /\ task[u].startLen = 0 /\ task[u].got = <<>>
        /\ task[t].got = <<1, 2>>
        /\ <<1, 1>> \in task[t].acked

\* C5: a message acknowledged under a durable name is not returned by any later
\* fetch under that name, by the acknowledging session or by another one.
C5_AckedNeverRedelivered ==
    [][\A u \in Tasks :
          Fetches(u) =>
              task'[u].got[Len(task'[u].got)] \notin AckedUnder(task'[u].durable)]_vars

\* C5 happens: one session acknowledged the first message and another session under
\* the same durable name then fetched, and got the second.
C5_Witness ==
    \E t \in Tasks, u \in Tasks :
        /\ t # u
        /\ task[t].durable = task[u].durable
        /\ 1 \in AckedSeqs(task[t])
        /\ task[u].got = <<2>>

\* C7: an envelope built by TestMessage(...), serialized with to_json and read back
\* with from_json, has the same id, type, payload and timestamp as the original.
C7_RoundTrip ==
    (rt.pc = "back" /\ rt.args # NoArgs) =>
        /\ rt.back.id = rt.msg.id
        /\ rt.back.type = rt.msg.type
        /\ rt.back.payload = rt.msg.payload
        /\ rt.back.timestamp = rt.msg.timestamp

\* C7 happens: an envelope built without an id and without a timestamp got a generated
\* id and a clock reading with a fractional second, and came back equal.
C7_Witness ==
    /\ rt.pc = "back"
    /\ rt.args # NoArgs
    /\ rt.args.msg_id = EmptyId
    /\ rt.msg.id \in Uuids
    /\ rt.msg.timestamp.micro # 0
    /\ rt.back = rt.msg

\* The concurrent-consumer benchmark has run for c messages per consumer: NTasks * c
\* messages were published before the consumers were started, every session is a
\* subscribe_messages call for c messages under a durable name of its own, and all
\* of them have returned over a connection that is still open.
BenchmarkDone(c) ==
    \A t \in Tasks :
        /\ task[t].kind = "helper"
        /\ task[t].pc = "returned"
        /\ IsOpen(task[t].conn)
        /\ task[t].count = c
        /\ task[t].startLen = NTasks * c
        /\ \A u \in Tasks \ {t} : task[u].durable # task[t].durable
        /\ \A i \in 1..task[t].startLen : stream[i] \notin ForeignBytes

RECURSIVE TotalReceived(_)
\* sum(len(result) for result in results) over the sessions of S
TotalReceived(S) ==
    IF S = {} THEN 0
    ELSE LET t == CHOOSE x \in S : TRUE
         IN Len(task[t].messages) + TotalReceived(S \ {t})

\* C11: in the concurrent-consumer benchmark every consumer receives exactly
\* messagesPerConsumer messages, and the messages received by all consumers together
\* are as many as were published (consumerCount * messagesPerConsumer), under every
\* interleaving of the consumers.
C11_ConcurrentConsumersTotal ==
    \A c \in 1..MaxCount :
        BenchmarkDone(c) =>
            /\ \A t \in Tasks : Len(task[t].messages) = c
            /\ TotalReceived(Tasks) = NTasks * c

\* C11 happens: as many messages as there are consumers were published, every
\* consumer asked for one and the benchmark counted as many as were published.
C11_Witness ==
    /\ BenchmarkDone(1)
    /\ Len(stream) = NTasks
    /\ TotalReceived(Tasks) = Len(stream)
    /\ \E t \in Tasks, u \in Tasks : t # u /\ task[t].got = <<1>> /\ task[u].got = <<1>>

C13_FailedConnectLeavesUnconnected ==
    [][/\ (nc = 0 /\ js = 0 /\ err' = "ConnectionError" /\ err' # err) =>
            (nc' = 0 /\ js' = 0 /\ nconn' = nconn)
       /\ js = 0 =>
            /\ \A i \in {EmptyId} \cup Ids, u \in PubUuids, sub \in Subjects :
                  Publish(i, u, sub) => (err' = "RuntimeError" /\ stream' = stream)
            /\ \A t \in Tasks, d \in Durables, c \in 1..MaxCount :
                  SubscribeMessages(t, d, c) =>
                      (task'[t].pc = "raised" /\ consumer' = consumer)
            /\ js' # 0 => (nconn' = nconn + 1 /\ nc' = js' /\ err' = "none")]_vars

\* C13 happens: on an adapter that was never connected a subscribe_messages call
\* raised at the guard and the last connect call raised ConnectionError.
C13_Witness ==
    /\ nc = 0 /\ js = 0 /\ nconn = 0
    /\ err = "ConnectionError"
    /\ \E t \in Tasks : task[t].pc = "raised" /\ task[t].cause = "guard"

\* C14: no operation of the harness creates or deletes a stream or changes the
\* subjects of one, and a get_stream_info call changes nothing at the broker.
C14_StreamsAreOnlyRead ==
    [][/\ registry' = Streams
       /\ info' # info => UNCHANGED <<stream, consumer, nc, js, closed>>]_vars

\* C14 happens: after a message was published, fetched and acknowledged the harness
\* asked about a stream the broker does not know, and the streams are the initial ones.
C14_Witness ==
    /\ info.asked = UnknownStreamName
    /\ info.err = "NotFoundError"
    /\ registry = Streams
    /\ Len(stream) = 1
    /\ \E t \in Tasks : task[t].acked # {}

\* C15: over an open connection, get_stream_info for one of the five stream names
\* returns a record with that name and natural-number message and byte counts; for a
\* name the broker does not know the call raises the adapter's error.
C15_StreamInfo ==
    [][\A n \in StreamNames \cup {UnknownStreamName} :
          (GetStreamInfo(n) /\ IsOpen(js)) =>
              IF n \in StreamNames
                THEN /\ info'.err = "none"
                     /\ info'.name = n
                     /\ info'.messages \in Nat
                     /\ info'.bytes \in Nat
                ELSE /\ info'.err = "NotFoundError"
                     /\ info'.name = ""]_vars

\* C15 happens: the harness asked about MARKET_DATA and got a record of that name.
C15_Witness ==
    /\ info.asked = "MARKET_DATA"
    /\ info.name = "MARKET_DATA"
    /\ info.err = "none"

\* C16 as claimed: every recorded latency is the receive time minus the send time of
\* its round trip, in milliseconds, and is not negative.
C16_LatencyIsElapsedMs ==
    \A k \in 1..Len(lat.latencies) :
        /\ lat.latencies[k] = (lat.reads[k][2] - lat.reads[k][1]) * 1000
        /\ lat.latencies[k] >= 0

\* C17 as claimed: for every key and value, a set(key, value) followed by get(key)
\* raises nothing and returns the value, whatever the configuration held before.
C17_SetThenGet ==
    (cfg.last.op = "get" /\ cfg.prev.op = "set" /\ cfg.last.key = cfg.prev.key) =>
        /\ cfg.prev.err = "none"
        /\ cfg.last.result = cfg.prev.arg

\* C18: get(key, default) raises nothing and leaves the configuration as it was, and
\* it returns the default whenever a segment of the path is missing or a value on the
\* path before the last segment is no map.
C18_GetReturnsDefault ==
    cfg.last.op = "get" =>
        /\ cfg.last.err = "none"
        /\ cfg.heap = cfg.before
        /\ Lookup(cfg.before, Ref(cfg.root), cfg.last.key).err # "none" =>
               cfg.last.result = cfg.last.arg

\* C18 happens: a get through a value that is no map, and a get of a missing key,
\* returned the default they were given.
C18_Witness ==
    /\ cfg.last.op = "get" /\ cfg.prev.op = "get"
    /\ cfg.last.key = <<"app", "name", "first">>
    /\ Lookup(cfg.before, Ref(cfg.root), cfg.last.key).err = "TypeError"
    /\ cfg.last.result = Leaf("str", "default_value")
    /\ cfg.prev.key = <<"test", "key">>
    /\ cfg.prev.result = cfg.prev.arg

\* The value the specification gives a key for the text of its variable: DEBUG true
\* only for 'true' in any letter case, ports and REDIS_DB the integer, the others
\* the text.
EnvValue(conv, text) ==
    CASE conv = "bool" -> Leaf("bool", IF text \in {"true", "TRUE"} THEN "True" ELSE "False")
      [] conv = "int" -> Leaf("int", IF text \in {"9000", " 9000"} THEN "9000" ELSE text)
      [] conv = "str" -> Leaf("str", text)

\* The default of a key: what a Config built in an empty environment holds there.
DefaultOf(path) ==
    Lookup(LoadDefaults(<<>>).heap, Ref(LoadDefaults(<<>>).root), path).value

\* The texts that denote an integer.
IsIntegerText(text) == text \in {"9000", " 9000"}

\* C19 as claimed: get on the key of a variable that is set returns the environment
\* value, and get on the key of a variable that is unset returns the default.
C19_EnvOverrides ==
    \A i \in 1..Len(EnvRules) :
        (cfg.last.op = "get" /\ cfg.last.key = EnvRules[i].path) =>
            cfg.last.result = IF cfg.env[EnvRules[i].var] = Unset
                                THEN DefaultOf(EnvRules[i].path)
                                ELSE EnvValue(EnvRules[i].conv, cfg.env[EnvRules[i].var])

\* C19, amended: get on the key of a variable set to a non-empty text returns the
\* environment value; a variable that is unset or set to the empty text leaves the
\* default; the construction fails, with ValueError, exactly when an integer
\* variable holds a non-empty text that is no integer.
C19_EnvOverridesNonEmpty ==
    /\ \A i \in 1..Len(EnvRules) :
          (cfg.last.op = "get" /\ cfg.last.key = EnvRules[i].path) =>
              cfg.last.result = IF cfg.env[EnvRules[i].var] \in {Unset, ""}
                                  THEN DefaultOf(EnvRules[i].path)
                                  ELSE EnvValue(EnvRules[i].conv, cfg.env[EnvRules[i].var])
    /\ cfg.pc = "failed" => cfg.last.op = "new" /\ cfg.last.err = "ValueError"
    /\ cfg.pc # "env" =>
          (cfg.pc = "failed" <=>
             \E i \in 1..Len(EnvRules) :
                 /\ EnvRules[i].conv = "int"
                 /\ cfg.env[EnvRules[i].var] \notin {Unset, ""}
                 /\ ~IsIntegerText(cfg.env[EnvRules[i].var]))

\* C19 happens: a Config built with PORT set to an integer text and DB_HOST set to
\* the empty text returned the integer for app.port.
C19_Witness ==
    /\ cfg.env["PORT"] = " 9000" /\ cfg.env["DB_HOST"] = ""
    /\ cfg.last.op = "get" /\ cfg.last.key = <<"app", "port">>
    /\ cfg.last.result = Leaf("int", "9000")
    /\ Lookup(cfg.heap, Ref(cfg.root), <<"database", "host">>).value = Leaf("str", "localhost")

\* C20 as claimed: after any sequence of get_logger calls, a call get_logger(name,
\* level) with a level the logging module knows returns the logger named name with
\* the requested level, INFO when no level is given.
C20_LoggerHasRequestedLevel ==
    (lg.last.name # "" /\ (lg.last.level = NoLevel \/ Upper(lg.last.level) \in LevelNames)) =>
        /\ lg.last.err = "none"
        /\ lg.last.returned = lg.last.name
        /\ lg.last.got = IF lg.last.level = NoLevel THEN "INFO" ELSE Upper(lg.last.level)

\* C21: with the ack-wait timer and the consumer treated fairly, every message
\* published to the subject is eventually acknowledged under the durable name, also
\* when an earlier session fetched it without acknowledging it or unsubscribed.
C21_EventualDelivery ==
    \A q \in 1..MaxMsgs : (Len(stream) >= q) ~> (q \in consumer[KeptDurable].acked)

\* C21 happens: the earlier session fetched the first message, never acknowledged it
\* and unsubscribed; the message was delivered again and is acknowledged under the
\* durable name.
C21_Witness ==
    /\ task[Earlier].pc = "closed"
    /\ 1 \in Range(task[Earlier].got)
    /\ 1 \notin AckedSeqs(task[Earlier])
    /\ 1 \in consumer[KeptDurable].acked
    /\ Len(stream) = MaxMsgs
    /\ consumer[KeptDurable].acked = 1..MaxMsgs

\* The stream length when the first publish task was issued.
BatchStart == SetMin({task[t].startLen : t \in Tasks})

\* C22: a publish_message call that returned has its envelope retained in the stream
\* at the position the broker confirmed, and once all concurrently issued calls
\* have returned the stream holds exactly one additional message per call, at
\* distinct positions.
C22_PublishDurable ==
    /\ \A t \in Tasks :
          (task[t].kind = "publish" /\ task[t].pc = "returned") =>
              /\ task[t].got # <<>>
              /\ task[t].got[1] \in (task[t].startLen + 1)..Len(stream)
              /\ stream[task[t].got[1]] = ToJson(task[t].messages[1])
    /\ (\A t \in Tasks : task[t].kind = "publish" /\ task[t].pc = "returned") =>
          /\ Len(stream) = BatchStart + NTasks
          /\ {task[t].got[1] : t \in Tasks} = (BatchStart + 1)..Len(stream)

\* C22 happens: every task returned, the stream held a message before, and the
\* broker stored the request of the second task before that of the first.
C22_Witness ==
    /\ \A t \in Tasks : task[t].kind = "publish" /\ task[t].pc = "returned"
    /\ BatchStart > 0
    /\ task[1].got[1] > task[2].got[1]
    /\ task[1].messages = task[2].messages

\* C23: a subscribe_messages call holds at most one delivered message that it has
\* not acknowledged: it is about to fetch only when it holds none, and while it
\* acknowledges it holds just the message it fetched last.
C23_OneInFlight ==
    \A t \in Tasks :
        task[t].kind = "helper" =>
            /\ Cardinality(task[t].held) <= 1
            /\ task[t].pc = "fetch" => task[t].held = {}
            /\ task[t].pc = "ack" => task[t].held = {task[t].got[Len(task[t].got)]}
            /\ task[t].durable \in Durables =>
                  Cardinality(task[t].held \cap consumer[task[t].durable].pending) <= 1

\* C23 happens: a call for two messages has acknowledged the first and holds the
\* second, fetched and not yet acknowledged, while another session is at work.
C23_Witness ==
    \E t \in Tasks, u \in Tasks :
        /\ u # t
        /\ task[t].kind = "helper" /\ task[t].pc = "ack"
        /\ task[t].count = 2
        /\ task[t].got = <<1, 2>>
        /\ 1 \in AckedSeqs(task[t])
        /\ task[t].held = {2}
        /\ 2 \in consumer[task[t].durable].pending
        /\ task[u].durable = task[t].durable
        /\ task[u].held # {}

\* A subscribe_messages call that is over: it returned or raised.
Over(tk) == tk.pc \in {"returned", "raised"}

\* C24: subscribe_messages(count) makes at most count fetches and returns at most
\* count envelopes, in the order they were delivered; a fetch that times out or
\* raises ends the call, which returns what it collected, and a call that is over
\* fetches no more.
C24_AtMostCountFetches ==
    /\ [](\A t \in AdapterTasks :
            task[t].kind = "helper" =>
                /\ Len(task[t].got) <= task[t].count
                /\ Len(task[t].messages) <= Len(task[t].got)
                /\ \A i \in 1..Len(task[t].messages) :
                       task[t].messages[i].id = PublishedId(task[t].got[i])
                /\ task[t].cause # "none" => Over(task[t]))
    /\ [][\A t \in AdapterTasks :
            /\ (FetchTimeout(t) \/ FetchFail(t)) =>
                   /\ task'[t].pc = "returned"
                   /\ task'[t].messages = task[t].messages
                   /\ task'[t].got = task[t].got
            /\ (task[t].kind = "helper" /\ Over(task[t])) => (task'[t] = task[t])
      ]_vars

\* C24 happens: a call for two messages received and acknowledged one, then its
\* second fetch raised because the connection had been closed, and it returned the
\* one envelope.
C24_Witness ==
    \E t \in AdapterTasks :
        /\ task[t].kind = "helper" /\ task[t].pc = "returned"
        /\ task[t].cause = "closed"
        /\ task[t].count = 2
        /\ task[t].got = <<1>>
        /\ Len(task[t].messages) = 1
        /\ task[t].held = {}

\* C25: on an adapter that never connected, publish_message, subscribe_messages and
\* get_stream_info each raise the RuntimeError of their guard and change nothing in
\* the adapter or the broker, and disconnect closes nothing.
C25_GuardBeforeConnect ==
    /\ [](nconn = 0 => (nc = 0 /\ js = 0 /\ closed = {} /\ stream \in Seq(ForeignBytes)
                        /\ registry = Streams
                        /\ \A d \in Durables : consumer[d] = NoConsumer))
    /\ [][nconn = 0 =>
           /\ \A i \in {EmptyId} \cup Ids, u \in PubUuids, sub \in Subjects :
                 Publish(i, u, sub) =>
                     /\ err' = "RuntimeError"
                     /\ UNCHANGED <<nconn, closed, nc, js, stream, consumer, task,
                                    registry, info>>
           /\ \A t \in AdapterTasks, d \in AdapterDurables, c \in 1..MaxCount :
                 SubscribeMessages(t, d, c) =>
                     /\ task'[t].pc = "raised" /\ task'[t].cause = "guard"
                     /\ task'[t].got = <<>> /\ task'[t].messages = <<>>
                     /\ UNCHANGED <<nconn, closed, nc, js, err, stream, consumer,
                                    registry, info>>
           /\ \A n \in StreamNames \cup {UnknownStreamName} :
                 GetStreamInfo(n) =>
                     /\ info'.err = "RuntimeError"
                     /\ UNCHANGED <<harness, registry>>
           /\ Disconnect => UNCHANGED vars
      ]_vars

\* C25 happens: without a connection, and after a connect that failed, a
\* subscribe_messages call, a get_stream_info call and a publish each raised at
\* their guard.
C25_Witness ==
    /\ nconn = 0 /\ js = 0
    /\ err = "RuntimeError"
    /\ info.err = "RuntimeError" /\ info.asked = TheStream
    /\ task[1].kind = "helper" /\ task[1].pc = "raised" /\ task[1].cause = "guard"
    /\ stream # <<>>

\* The dot paths get is asked for before and after a call.
Probes == ConfigKeys \cup {<<"test", "name">>, <<"extra">>}

\* p is a prefix of q (or q itself).
IsPrefix(p, q) == Len(p) <= Len(q) /\ SubSeq(q, 1, Len(p)) = p

\* C26 as claimed: for every dot path that is neither a prefix nor an extension of
\* the key of a set, get returns the same value after the set as before it.
C26_SetFrame ==
    cfg.last.op = "set" =>
        \A p \in Probes :
            (~IsPrefix(p, cfg.last.key) /\ ~IsPrefix(cfg.last.key, p)) =>
                Get(cfg.heap, cfg.root, p, NoneLeaf) = Get(cfg.before, cfg.root, p, NoneLeaf)

\* C27 as claimed: an assignment in the dict to_dict returned, at the top level or
\* inside a section, leaves what get returns for every dot path as it was.
C27_ToDictIsSnapshot ==
    cfg.last.op = "assign" =>
        \A p \in Probes :
            Get(cfg.heap, cfg.root, p, NoneLeaf) = Get(cfg.before, cfg.root, p, NoneLeaf)

\* C28: a logger get_logger has returned has exactly one handler (a logger has one
\* handler or, while no call for its name has returned, none), a call for a name
\* that is already configured returns that logger and changes no logger, and no
\* call removes a handler.
C28_OneHandlerPerLogger ==
    /\ [](\A n \in LoggerNames :
            /\ lg.loggers[n].handlers \in {0, 1}
            /\ lg.last.returned = n => lg.loggers[n].handlers = 1)
    /\ [][/\ \A name \in LoggerNames, level \in LevelArgs :
               (GetLogger(name, level) /\ lg.loggers[name].handlers > 0) =>
                   /\ lg'.loggers = lg.loggers
                   /\ lg'.last.returned = name
                   /\ lg'.last.err = "none"
          /\ \A n \in LoggerNames : lg'.loggers[n].handlers >= lg.loggers[n].handlers
      ]_vars

\* C28 happens: both names are configured, and a repeated call with another level
\* returned the logger as the first call left it, with its one handler.
C28_Witness ==
    /\ lg.last.name = "test_logger" /\ lg.last.level = "WARNING"
    /\ lg.last.returned = "test_logger" /\ lg.last.got = "INFO"
    /\ lg.loggers["test_logger"].handlers = 1
    /\ lg.loggers["integration_test"] = [level |-> "DEBUG", handlers |-> 1]
====
